---- MODULE Spec2Model ----
(***************************************************************************)
(* Model of the sales analytics system: the aggregation engine             *)
(* (src/utils/data_processor.py) as called by step 4 of src/main.py,       *)
(* validate_and_filter (src/utils/file_handler.py), enrich_sales_data      *)
(* (src/utils/api_handler.py) and the run of src/main.py from its imports  *)
(* to its last step.                                                       *)
(*                                                                         *)
(* Representation                                                          *)
(*   - a transaction (a Python dict) is a TLA+ record; a key the dict does *)
(*     not hold is a field the record does not have, and dict.get(k, d) is *)
(*     Get(t, k, d);                                                       *)
(*   - an insertion-ordered dict of statistics is a sequence of entries    *)
(*     [key |-> ..., <statistic> |-> ...] with pairwise different keys, in *)
(*     insertion order;                                                    *)
(*   - a float is a whole number of currency units with at most FloatBits *)
(*     significant bits: every product and sum of floats is rounded to     *)
(*     that many bits, ties to even, as IEEE 754 does at 53 bits. The      *)
(*     precision is scaled down to numbers TLC can hold; amounts below     *)
(*     2^FloatBits add up exactly, as whole amounts below 2^53 do in the   *)
(*     program;                                                            *)
(*   - a value rounded with round(x, 2) is kept in hundredths (66.67 is    *)
(*     6667); the division before it is exact, its error being far below  *)
(*     the second decimal;                                                 *)
(*   - a Date is the sequence of the character codes of its string, so     *)
(*     that Python's string order is LexLess, and so is every string the   *)
(*     program takes apart (a ProductID handed to enrich_sales_data, the   *)
(*     fields validate_and_filter tests); a string that is only ever       *)
(*     compared for equality is a TLA+ string.                             *)
(***************************************************************************)
EXTENDS Integers, Sequences, FiniteSets

VARIABLES
    transactions,   \* the record list handed to the functions
    called,         \* name of the function that returned last, "none" at start
    arg,            \* its other arguments (n, threshold, mapping, filters), 0 when it has none
    ret,            \* the value it returned
    hash_order,     \* the order in which this process's sets enumerate product names
    pc,             \* the step the program is at
    env             \* what is outside the program: files, network

vars == <<transactions, called, arg, ret, hash_order, pc, env>>

----------------------------------------------------------------------------
(* Bounds of the model *)

MaxLen == 3          \* longest record list
MaxN == 3            \* largest n handed to top_selling_products
MaxThreshold == 3    \* largest threshold handed to low_performing_products
FloatBits == 6       \* significant bits of a float
MaxBatch == 2        \* longest record list handed to validate_and_filter

----------------------------------------------------------------------------
(* Python built-ins used by the analyzers *)

\* None, as the date of find_peak_sales_day's empty result: no string has a
\* negative character code.
None == <<-1>>

\* 'Unknown' as a Date: the character codes of the default of .get('Date', 'Unknown')
UnknownDate == <<85, 110, 107, 110, 111, 119, 110>>

\* A faulty variant of Get that takes a Quantity or UnitPrice that is not there as 1.
GetDefaultingToOne(t, k, d) ==
    IF k \in DOMAIN t THEN t[k] ELSE IF k \in {"Quantity", "UnitPrice"} THEN 1 ELSE d

\* dict.get(k, d)
Get(t, k, d) == IF k \in DOMAIN t THEN t[k] ELSE d

Min(a, b) == IF a <= b THEN a ELSE b

Max(a, b) == IF a >= b THEN a ELSE b

RECURSIVE Pow2(_)
Pow2(n) == IF n = 0 THEN 1 ELSE 2 * Pow2(n - 1)

RECURSIVE Ulp(_)
\* the spacing of the floats around x >= 0: 1 below 2^FloatBits, doubling
\* with every further bit
Ulp(x) == IF x < Pow2(FloatBits) THEN 1 ELSE 2 * Ulp(x \div 2)

\* x >= 0 rounded to the nearest float, a tie to the one with the even
\* significand
RoundNearestEven(x) ==
    LET ulp == Ulp(x)
        q == x \div ulp
        r == x % ulp
    IN  IF 2 * r < ulp THEN q * ulp
        ELSE IF 2 * r > ulp THEN (q + 1) * ulp
        ELSE IF q % 2 = 0 THEN q * ulp ELSE (q + 1) * ulp

\* the float nearest to the number x
fl(x) == IF x >= 0 THEN RoundNearestEven(x) ELSE 0 - RoundNearestEven(0 - x)

\* a + b and a * b in floating point
float_add(a, b) == fl(a + b)

float_mul(a, b) == fl(a * b)

\* a < b for two strings or two tuples (sequences of integers): the first
\* differing position decides, a proper prefix is smaller.
LexLess(a, b) ==
    \E i \in 1..(Min(Len(a), Len(b)) + 1) :
        /\ \A j \in 1..(i - 1) : a[j] = b[j]
        /\ \/ i = Len(a) + 1 /\ i <= Len(b)
           \/ i <= Len(a) /\ i <= Len(b) /\ a[i] < b[i]

\* A faulty variant of sorted that sorts ascending and then reverses the
\* result when reverse is asked for: items with equal keys come out in the
\* opposite of their original order.
sortedReversingTies(items, keys, reverse) ==
    LET n == Len(items)
        Before(j, i) ==
            \/ IF reverse THEN LexLess(keys[i], keys[j]) ELSE LexLess(keys[j], keys[i])
            \/ keys[j] = keys[i] /\ (IF reverse THEN j > i ELSE j < i)
        Rank(i) == Cardinality({j \in 1..n : Before(j, i)}) + 1
    IN  [p \in 1..n |-> items[CHOOSE i \in 1..n : Rank(i) = p]]

\* sorted(items, key=..., reverse=...): keys[i] is the key of items[i], a tuple
\* of integers. The sort is stable, and reverse=True keeps the original order
\* of items with equal keys.
sorted(items, keys, reverse) ==
    LET n == Len(items)
        Before(j, i) ==
            \/ IF reverse THEN LexLess(keys[i], keys[j]) ELSE LexLess(keys[j], keys[i])
            \/ keys[j] = keys[i] /\ j < i
        Rank(i) == Cardinality({j \in 1..n : Before(j, i)}) + 1
    IN  [p \in 1..n |-> items[CHOOSE i \in 1..n : Rank(i) = p]]

\* A faulty variant of round2 that truncates instead of rounding; the
\* percentages of three regions then miss 100 by more than rounding allows.
round2Truncating(num, den) == (num * 100) \div den

\* round(num / den, 2) in hundredths, for den > 0: Python rounds a tie to
\* the even neighbour.
round2(num, den) ==
    LET q == (num * 100) \div den
        r == (num * 100) % den
    IN  IF 2 * r < den THEN q
        ELSE IF 2 * r > den THEN q + 1
        ELSE IF q % 2 = 0 THEN q ELSE q + 1

\* A faulty variant of SliceTo that keeps one item too many.
SliceToInclusive(s, n) ==
    IF n >= 0 THEN SubSeq(s, 1, Min(n + 1, Len(s)))
    ELSE SubSeq(s, 1, Max(Len(s) + n, 0))

\* s[:n]
SliceTo(s, n) ==
    IF n >= 0 THEN SubSeq(s, 1, Min(n, Len(s)))
    ELSE SubSeq(s, 1, Max(Len(s) + n, 0))

\* "k in d" for a dict d
HasKey(d, k) == \E i \in 1..Len(d) : d[i].key = k

\* list(s) for a set s: the order of the list is whatever the hash table
\* gives, so every enumeration of s is a possible result.
list(s) ==
    {l \in [1..Cardinality(s) -> s] : \A i, j \in 1..Cardinality(s) : l[i] = l[j] => i = j}

\* the place of a name in the enumeration order of this process
HashIndex(name) == CHOOSE i \in 1..Len(hash_order) : hash_order[i] = name

\* l is in the enumeration order of this process
InHashOrder(l) == \A i, j \in 1..Len(l) : i < j => HashIndex(l[i]) < HashIndex(l[j])

----------------------------------------------------------------------------
(* calculate_total_revenue *)

RECURSIVE RevenueLoop(_, _)
\* total_revenue after the first i iterations of the loop
RevenueLoop(txs, i) ==
    IF i = 0 THEN 0
    ELSE LET transaction == txs[i]
             quantity == Get(transaction, "Quantity", 0)
             unit_price == Get(transaction, "UnitPrice", 0)
         IN  float_add(RevenueLoop(txs, i - 1), float_mul(quantity, unit_price))

calculate_total_revenue(txs) == RevenueLoop(txs, Len(txs))

----------------------------------------------------------------------------
(* region_wise_sales *)

\* A faulty variant of RegionAdd that assigns the sale instead of adding it.
RegionAddOverwriting(entry, sales) ==
    [entry EXCEPT !.total_sales = sales, !.transaction_count = @ + 1]

\* region_data[region]['total_sales'] += sales; ...['transaction_count'] += 1
RegionAdd(entry, sales) ==
    [entry EXCEPT !.total_sales = float_add(@, sales), !.transaction_count = @ + 1]

RECURSIVE RegionLoop(_, _)
\* region_data and total_revenue after the first i iterations of the first loop
RegionLoop(txs, i) ==
    IF i = 0 THEN [region_data |-> <<>>, total_revenue |-> 0]
    ELSE LET prev == RegionLoop(txs, i - 1)
             transaction == txs[i]
             region == Get(transaction, "Region", "Unknown")
             quantity == Get(transaction, "Quantity", 0)
             unit_price == Get(transaction, "UnitPrice", 0)
             sales == float_mul(quantity, unit_price)
             d == IF ~HasKey(prev.region_data, region)
                  THEN Append(prev.region_data,
                              [key |-> region, total_sales |-> 0, transaction_count |-> 0])
                  ELSE prev.region_data
         IN  [region_data |-> [j \in 1..Len(d) |->
                                 IF d[j].key = region THEN RegionAdd(d[j], sales) ELSE d[j]],
              total_revenue |-> float_add(prev.total_revenue, sales)]

\* the percentage the second loop gives a region
RegionPercentage(total_sales, total_revenue) ==
    IF total_revenue > 0 THEN round2(total_sales * 100, total_revenue) ELSE 0

region_wise_sales(txs) ==
    LET acc == RegionLoop(txs, Len(txs))
        region_data == [j \in 1..Len(acc.region_data) |->
            [key |-> acc.region_data[j].key,
             total_sales |-> acc.region_data[j].total_sales,
             transaction_count |-> acc.region_data[j].transaction_count,
             percentage |-> RegionPercentage(acc.region_data[j].total_sales,
                                             acc.total_revenue)]]
    IN  sorted(region_data,
               [j \in 1..Len(region_data) |-> <<region_data[j].total_sales>>], TRUE)

----------------------------------------------------------------------------
(* top_selling_products *)

\* product_data[product_name]['total_quantity'] += quantity; ...['total_revenue'] += revenue
ProductAdd(entry, quantity, revenue) ==
    [entry EXCEPT !.total_quantity = @ + quantity,
                  !.total_revenue = float_add(@, revenue)]

RECURSIVE TopProductLoopPerProductID(_, _)
\* A faulty variant of TopProductLoop that keeps one entry per ProductID and name.
TopProductLoopPerProductID(txs, i) ==
    IF i = 0 THEN <<>>
    ELSE LET prev == TopProductLoopPerProductID(txs, i - 1)
             transaction == txs[i]
             product_id == Get(transaction, "ProductID", "Unknown")
             product_name == Get(transaction, "ProductName", "Unknown")
             quantity == Get(transaction, "Quantity", 0)
             unit_price == Get(transaction, "UnitPrice", 0)
             revenue == float_mul(quantity, unit_price)
             mine(e) == e.key = product_name /\ e.product_id = product_id
             d == IF ~\E j \in 1..Len(prev) : mine(prev[j])
                  THEN Append(prev, [key |-> product_name, product_id |-> product_id,
                                     total_quantity |-> 0, total_revenue |-> 0])
                  ELSE prev
         IN  [j \in 1..Len(d) |->
                 IF mine(d[j]) THEN ProductAdd(d[j], quantity, revenue) ELSE d[j]]

RECURSIVE TopProductLoop(_, _)
\* product_data after the first i iterations of the loop of top_selling_products
TopProductLoop(txs, i) ==
    IF i = 0 THEN <<>>
    ELSE LET prev == TopProductLoop(txs, i - 1)
             transaction == txs[i]
             product_name == Get(transaction, "ProductName", "Unknown")
             quantity == Get(transaction, "Quantity", 0)
             unit_price == Get(transaction, "UnitPrice", 0)
             revenue == float_mul(quantity, unit_price)
             d == IF ~HasKey(prev, product_name)
                  THEN Append(prev, [key |-> product_name, total_quantity |-> 0,
                                     total_revenue |-> 0])
                  ELSE prev
         IN  [j \in 1..Len(d) |->
                 IF d[j].key = product_name THEN ProductAdd(d[j], quantity, revenue) ELSE d[j]]

\* the tuple (name, total_quantity, total_revenue) of one product
ProductTuple(entry) == <<entry.key, entry.total_quantity, entry.total_revenue>>

top_selling_products(txs, n) ==
    LET product_data == TopProductLoop(txs, Len(txs))
        product_list == [j \in 1..Len(product_data) |-> ProductTuple(product_data[j])]
        sorted_products == sorted(product_list,
                                  [j \in 1..Len(product_list) |-> <<product_list[j][2]>>], TRUE)
    IN  SliceTo(sorted_products, n)

----------------------------------------------------------------------------
(* customer_analysis *)

\* A faulty variant of CustomerAdd that takes the number of products bought
\* for the number of purchases.
CustomerAddCountingProducts(entry, amount, product_name) ==
    [entry EXCEPT !.total_spent = float_add(@, amount),
                  !.purchase_count = Cardinality(entry.products_bought \cup {product_name}),
                  !.products_bought = @ \cup {product_name}]

\* A faulty variant of CustomerAdd that keeps only the last product bought.
CustomerAddLastProduct(entry, amount, product_name) ==
    [entry EXCEPT !.total_spent = float_add(@, amount),
                  !.purchase_count = @ + 1,
                  !.products_bought = {product_name}]

\* ...['total_spent'] += amount; ...['purchase_count'] += 1; ...['products_bought'].add(product_name)
CustomerAdd(entry, amount, product_name) ==
    [entry EXCEPT !.total_spent = float_add(@, amount),
                  !.purchase_count = @ + 1,
                  !.products_bought = @ \cup {product_name}]

RECURSIVE CustomerLoop(_, _)
\* customer_data after the first i iterations of the first loop
CustomerLoop(txs, i) ==
    IF i = 0 THEN <<>>
    ELSE LET prev == CustomerLoop(txs, i - 1)
             transaction == txs[i]
             customer_id == Get(transaction, "CustomerID", "Unknown")
             quantity == Get(transaction, "Quantity", 0)
             unit_price == Get(transaction, "UnitPrice", 0)
             product_name == Get(transaction, "ProductName", "Unknown")
             amount == float_mul(quantity, unit_price)
             d == IF ~HasKey(prev, customer_id)
                  THEN Append(prev, [key |-> customer_id, total_spent |-> 0,
                                     purchase_count |-> 0, products_bought |-> {}])
                  ELSE prev
         IN  [j \in 1..Len(d) |->
                 IF d[j].key = customer_id THEN CustomerAdd(d[j], amount, product_name)
                 ELSE d[j]]

\* one customer's entry after the second loop, products being the list that
\* list(products_bought) produced
CustomerFinish(entry, products) ==
    [key |-> entry.key,
     total_spent |-> entry.total_spent,
     purchase_count |-> entry.purchase_count,
     avg_order_value |-> IF entry.purchase_count > 0
                         THEN round2(entry.total_spent, entry.purchase_count) ELSE 0,
     products_bought |-> products]

RECURSIVE CustomerSecondLoop(_)
\* the dicts the second loop can leave: one per choice of the order of each
\* customer's product list
CustomerSecondLoop(customer_data) ==
    IF customer_data = <<>> THEN {<<>>}
    ELSE LET n == Len(customer_data)
         IN  {Append(d, CustomerFinish(customer_data[n], l)) :
                 d \in CustomerSecondLoop(SubSeq(customer_data, 1, n - 1)),
                 l \in list(customer_data[n].products_bought)}

\* the set of values customer_analysis can return
customer_analysis(txs) ==
    {sorted(d, [j \in 1..Len(d) |-> <<d[j].total_spent>>], TRUE) :
        d \in CustomerSecondLoop(CustomerLoop(txs, Len(txs)))}

----------------------------------------------------------------------------
(* daily_sales_trend *)

\* A faulty variant of DailyAdd that keeps the revenue of the last sale of the day.
DailyAddLastRevenue(entry, revenue, customer_id) ==
    [entry EXCEPT !.revenue = revenue,
                  !.transaction_count = @ + 1,
                  !.unique_customers = @ \cup {customer_id}]

\* ...['revenue'] += revenue; ...['transaction_count'] += 1; ...['unique_customers'].add(customer_id)
DailyAdd(entry, revenue, customer_id) ==
    [entry EXCEPT !.revenue = float_add(@, revenue),
                  !.transaction_count = @ + 1,
                  !.unique_customers = @ \cup {customer_id}]

RECURSIVE DailyLoop(_, _)
\* daily_data after the first i iterations of the first loop
DailyLoop(txs, i) ==
    IF i = 0 THEN <<>>
    ELSE LET prev == DailyLoop(txs, i - 1)
             transaction == txs[i]
             date == Get(transaction, "Date", UnknownDate)
             quantity == Get(transaction, "Quantity", 0)
             unit_price == Get(transaction, "UnitPrice", 0)
             customer_id == Get(transaction, "CustomerID", "Unknown")
             revenue == float_mul(quantity, unit_price)
             d == IF ~HasKey(prev, date)
                  THEN Append(prev, [key |-> date, revenue |-> 0, transaction_count |-> 0,
                                     unique_customers |-> {}])
                  ELSE prev
         IN  [j \in 1..Len(d) |->
                 IF d[j].key = date THEN DailyAdd(d[j], revenue, customer_id) ELSE d[j]]

\* daily_data after the second loop: unique_customers becomes its size
DailySecondLoop(acc) ==
    [j \in 1..Len(acc) |->
        [key |-> acc[j].key,
         revenue |-> acc[j].revenue,
         transaction_count |-> acc[j].transaction_count,
         unique_customers |-> Cardinality(acc[j].unique_customers)]]

\* A faulty variant of daily_sales_trend that leaves out the sort.
daily_sales_trendUnsorted(txs) == DailySecondLoop(DailyLoop(txs, Len(txs)))

\* sorted(daily_data.items()): the items are (date, statistics) pairs with
\* pairwise different dates, so the date alone orders them
daily_sales_trend(txs) ==
    LET daily_data == DailySecondLoop(DailyLoop(txs, Len(txs)))
    IN  sorted(daily_data, [j \in 1..Len(daily_data) |-> daily_data[j].key], FALSE)

----------------------------------------------------------------------------
(* find_peak_sales_day *)

\* A faulty variant of PeakAdd that does not count the sales of a day.
PeakAddCountingOnce(entry, revenue) ==
    [entry EXCEPT !.revenue = float_add(@, revenue), !.transaction_count = 1]

\* daily_data[date]['revenue'] += revenue; daily_data[date]['transaction_count'] += 1
PeakAdd(entry, revenue) ==
    [entry EXCEPT !.revenue = float_add(@, revenue), !.transaction_count = @ + 1]

RECURSIVE PeakLoop(_, _)
\* daily_data after the first i iterations of the loop of find_peak_sales_day
PeakLoop(txs, i) ==
    IF i = 0 THEN <<>>
    ELSE LET prev == PeakLoop(txs, i - 1)
             transaction == txs[i]
             date == Get(transaction, "Date", UnknownDate)
             quantity == Get(transaction, "Quantity", 0)
             unit_price == Get(transaction, "UnitPrice", 0)
             revenue == float_mul(quantity, unit_price)
             d == IF ~HasKey(prev, date)
                  THEN Append(prev, [key |-> date, revenue |-> 0, transaction_count |-> 0])
                  ELSE prev
         IN  [j \in 1..Len(d) |->
                 IF d[j].key = date THEN PeakAdd(d[j], revenue) ELSE d[j]]

\* A faulty variant of PeakIndex that lets a later item with an equal revenue
\* replace the maximum found so far.
PeakIndexLast(d) ==
    CHOOSE i \in 1..Len(d) :
        /\ \A j \in 1..Len(d) : d[j].revenue <= d[i].revenue
        /\ \A j \in (i + 1)..Len(d) : d[j].revenue < d[i].revenue

\* max(d.items(), key=...['revenue']) on a non-empty dict: the first item, in
\* iteration order, that no item exceeds
PeakIndex(d) ==
    CHOOSE i \in 1..Len(d) :
        /\ \A j \in 1..Len(d) : d[j].revenue <= d[i].revenue
        /\ \A j \in 1..(i - 1) : d[j].revenue < d[i].revenue

\* A faulty variant of find_peak_sales_day that names the default date on an
\* empty list.
find_peak_sales_dayUnknown(txs) ==
    LET daily_data == PeakLoop(txs, Len(txs))
    IN  IF daily_data = <<>> THEN <<UnknownDate, 0, 0>>
        ELSE LET peak_date == daily_data[PeakIndex(daily_data)]
             IN  <<peak_date.key, peak_date.revenue, peak_date.transaction_count>>

find_peak_sales_day(txs) ==
    LET daily_data == PeakLoop(txs, Len(txs))
    IN  IF daily_data = <<>> THEN <<None, 0, 0>>
        ELSE LET peak_date == daily_data[PeakIndex(daily_data)]
             IN  <<peak_date.key, peak_date.revenue, peak_date.transaction_count>>

----------------------------------------------------------------------------
(* low_performing_products *)

RECURSIVE LowProductLoop(_, _)
\* product_data after the first i iterations of the loop of low_performing_products
LowProductLoop(txs, i) ==
    IF i = 0 THEN <<>>
    ELSE LET prev == LowProductLoop(txs, i - 1)
             transaction == txs[i]
             product_name == Get(transaction, "ProductName", "Unknown")
             quantity == Get(transaction, "Quantity", 0)
             unit_price == Get(transaction, "UnitPrice", 0)
             revenue == float_mul(quantity, unit_price)
             d == IF ~HasKey(prev, product_name)
                  THEN Append(prev, [key |-> product_name, total_quantity |-> 0,
                                     total_revenue |-> 0])
                  ELSE prev
         IN  [j \in 1..Len(d) |->
                 IF d[j].key = product_name THEN ProductAdd(d[j], quantity, revenue) ELSE d[j]]

\* A faulty variant of IsLowPerforming that lets the threshold itself through.
IsLowPerformingInclusive(total_quantity, threshold) == total_quantity <= threshold

\* the condition of the list comprehension
IsLowPerforming(total_quantity, threshold) == total_quantity < threshold

RECURSIVE LowFilter(_, _, _)
\* the list comprehension over the first i items of product_data
LowFilter(product_data, i, threshold) ==
    IF i = 0 THEN <<>>
    ELSE LET rest == LowFilter(product_data, i - 1, threshold)
         IN  IF IsLowPerforming(product_data[i].total_quantity, threshold)
             THEN Append(rest, ProductTuple(product_data[i]))
             ELSE rest

low_performing_products(txs, threshold) ==
    LET product_data == LowProductLoop(txs, Len(txs))
        low_performing == LowFilter(product_data, Len(product_data), threshold)
    IN  sorted(low_performing,
               [j \in 1..Len(low_performing) |-> <<low_performing[j][2]>>], FALSE)

----------------------------------------------------------------------------
(* The record lists the analyzers are run on *)

\* '2024-12-01', '2024-11-30' and '2024-12' as character codes
Date1 == <<50, 48, 50, 52, 45, 49, 50, 45, 48, 49>>

Date2 == <<50, 48, 50, 52, 45, 49, 49, 45, 51, 48>>

Date3 == <<50, 48, 50, 52, 45, 49, 50>>

Dates == {Date1, Date2, Date3}

Regions == {"North", "South", "East"}

ProductNames == {"Laptop", "Mouse", "Webcam"}

CustomerIDs == {"C001", "C002", "C003"}

Quantities == {0, 1, 2}

UnitPrices == {1, 2}

\* a parsed line: the dict parse_transactions builds
Txn(date, product_name, quantity, unit_price, customer_id, region) ==
    [TransactionID |-> "T001", Date |-> date, ProductID |-> "P101",
     ProductName |-> product_name, Quantity |-> quantity, UnitPrice |-> unit_price,
     CustomerID |-> customer_id, Region |-> region]

\* the lists of at most MaxLen records of U
Lists(U) == UNION {[1..k -> U] : k \in 0..MaxLen}

\* records that differ in region and amount
RegionRecords ==
    {Txn(Date1, "Laptop", q, p, "C001", r) : q \in Quantities, p \in UnitPrices, r \in Regions}

\* the largest odd float, the float before it, and 1
EdgePrices == {1, Pow2(FloatBits) - 2, Pow2(FloatBits) - 1}

\* records of two regions whose amounts are at the edge of the precision of
\* a float, where a product or a sum has to be rounded
EdgeRecords ==
    {Txn(Date1, "Laptop", q, p, "C001", r) :
        q \in {1, 3}, p \in EdgePrices, r \in {"North", "South"}}

\* records that differ in product and quantity
ProductRecords ==
    {Txn(Date1, n, q, 2, "C001", "North") : n \in ProductNames, q \in Quantities}

\* records that differ in customer, product and quantity
CustomerRecords ==
    {Txn(Date1, n, q, 1, c, "North") :
        n \in ProductNames, q \in Quantities \ {0}, c \in CustomerIDs \ {"C003"}}

\* records that differ in date, quantity and customer
DailyRecords ==
    {Txn(d, "Laptop", q, 1, c, "North") :
        d \in Dates, q \in Quantities, c \in CustomerIDs \ {"C003"}}

\* the k-th region, customer and day
RegionOf == <<"North", "South", "East">>

CustomerOf == <<"C001", "C002", "C003">>

DateOf == <<Date1, Date2, Date3>>

\* the order lines on sale: product and quantity
OrderLines == {<<"Laptop", 1>>, <<"Laptop", 2>>, <<"Mouse", 1>>}

\* records of three sales outlets, each with its own region, customer and
\* day, that differ in outlet and order line
SalesRecords ==
    {Txn(DateOf[k], line[1], line[2], 1, CustomerOf[k], RegionOf[k]) :
        k \in 1..3, line \in OrderLines}

----------------------------------------------------------------------------
(* Calls of the analyzers: each is a pure function of the list, so any of
   them may be called at any time, in any order (main calls them one after
   the other over the same list). *)

\* A faulty variant of CallTotalRevenue that pops the records off the list it
\* is given while it adds them up.
CallTotalRevenueConsuming ==
    /\ called' = "calculate_total_revenue"
    /\ arg' = 0
    /\ ret' = calculate_total_revenue(transactions)
    /\ transactions' = <<>>
    /\ UNCHANGED <<hash_order, pc, env>>

CallTotalRevenue ==
    /\ called' = "calculate_total_revenue"
    /\ arg' = 0
    /\ ret' = calculate_total_revenue(transactions)
    /\ UNCHANGED <<transactions, hash_order, pc, env>>

CallRegionWiseSales ==
    /\ called' = "region_wise_sales"
    /\ arg' = 0
    /\ ret' = region_wise_sales(transactions)
    /\ UNCHANGED <<transactions, hash_order, pc, env>>

CallTopSellingProducts ==
    \E n \in (0 - MaxN)..MaxN :
        /\ called' = "top_selling_products"
        /\ arg' = n
        /\ ret' = top_selling_products(transactions, n)
        /\ UNCHANGED <<transactions, hash_order, pc, env>>

\* the hash of a string is fixed when the process starts, so within one run
\* every list(products_bought) lists the names in the same relative order
CallCustomerAnalysis ==
    /\ called' = "customer_analysis"
    /\ arg' = 0
    /\ ret' \in {r \in customer_analysis(transactions) :
                   \A i \in 1..Len(r) : InHashOrder(r[i].products_bought)}
    /\ UNCHANGED <<transactions, hash_order, pc, env>>

CallDailySalesTrend ==
    /\ called' = "daily_sales_trend"
    /\ arg' = 0
    /\ ret' = daily_sales_trend(transactions)
    /\ UNCHANGED <<transactions, hash_order, pc, env>>

CallFindPeakSalesDay ==
    /\ called' = "find_peak_sales_day"
    /\ arg' = 0
    /\ ret' = find_peak_sales_day(transactions)
    /\ UNCHANGED <<transactions, hash_order, pc, env>>

CallLowPerformingProducts ==
    \E threshold \in 0..MaxThreshold :
        /\ called' = "low_performing_products"
        /\ arg' = threshold
        /\ ret' = low_performing_products(transactions, threshold)
        /\ UNCHANGED <<transactions, hash_order, pc, env>>

\* the names a set of product names can hold
HashedNames == ProductNames \cup {"Unknown"}

\* the orders a hash seed can give them
HashOrders == list(HashedNames)

\* one of them
HashOrderOfRun == <<"Laptop", "Mouse", "Webcam", "Unknown">>

\* the outside of a run in which every file is there and the network answers
EnvOfRun ==
    [developer_file |-> "present", data_file |-> "present", api |-> "up",
     enriched_file |-> "writable", report_file |-> "writable"]

\* main is at step 4 and no analyzer has been called yet on the list; the
\* hash seed of the process is one of orders
StartHashed(U, orders) ==
    /\ transactions \in Lists(U)
    /\ called = "none"
    /\ arg = 0
    /\ ret = 0
    /\ hash_order \in orders
    /\ pc = "analysis"
    /\ env = EnvOfRun

Start(U) == StartHashed(U, {HashOrderOfRun})

\* Revenue and regions
InitRegion == Start(RegionRecords)

NextRegion == CallTotalRevenue \/ CallRegionWiseSales

SpecRegion == InitRegion /\ [][NextRegion]_vars

\* Revenue and regions, with amounts that floats round
InitEdge == Start(EdgeRecords)

SpecEdge == InitEdge /\ [][NextRegion]_vars

\* Products
InitProduct == Start(ProductRecords)

NextProduct == CallTopSellingProducts \/ CallLowPerformingProducts

SpecProduct == InitProduct /\ [][NextProduct]_vars

\* Customers, under every order of the names their records hold
InitCustomer ==
    StartHashed(CustomerRecords, {o \in HashOrders : o[Len(o)] = "Unknown"})

NextCustomer == CallCustomerAnalysis

SpecCustomer == InitCustomer /\ [][NextCustomer]_vars

\* Days
InitDaily == Start(DailyRecords)

NextDaily == CallDailySalesTrend \/ CallFindPeakSalesDay

SpecDaily == InitDaily /\ [][NextDaily]_vars

\* All seven analyzers over the same list, as in step 4 of main
Init == Start(SalesRecords)

Next ==
    \/ CallTotalRevenue
    \/ CallRegionWiseSales
    \/ CallTopSellingProducts
    \/ CallCustomerAnalysis
    \/ CallDailySalesTrend
    \/ CallFindPeakSalesDay
    \/ CallLowPerformingProducts

Spec == Init /\ [][Next]_vars

----------------------------------------------------------------------------
(* Reference definitions for the properties: what a result should be, said
   directly over the record list and not by the analyzers' loops. *)

RECURSIVE SeqSum(_)
\* the sum of a sequence of numbers
SeqSum(s) == IF s = <<>> THEN 0 ELSE SeqSum(SubSeq(s, 1, Len(s) - 1)) + s[Len(s)]

Abs(x) == IF x < 0 THEN 0 - x ELSE x

Amount(t) == Get(t, "Quantity", 0) * Get(t, "UnitPrice", 0)

\* the grand total of the amounts of the list
GrandTotal == SeqSum([i \in 1..Len(transactions) |-> Amount(transactions[i])])

\* the positions of the list
Positions == 1..Len(transactions)

TxnRegion(t) == Get(t, "Region", "Unknown")

TxnProduct(t) == Get(t, "ProductName", "Unknown")

TxnCustomer(t) == Get(t, "CustomerID", "Unknown")

TxnDate(t) == Get(t, "Date", UnknownDate)

TxnQuantity(t) == Get(t, "Quantity", 0)

\* the smallest member of a non-empty set of positions
First(S) == CHOOSE i \in S : \A j \in S : i <= j

\* the products, the days, the regions and the customers of the list
SoldProducts == {TxnProduct(transactions[i]) : i \in Positions}

SaleDates == {TxnDate(transactions[i]) : i \in Positions}

\* per product: its positions, its total quantity, where it was first seen
ProductPositions(name) == {i \in Positions : TxnProduct(transactions[i]) = name}

TotalQuantity(name) ==
    SeqSum([i \in Positions |->
               IF i \in ProductPositions(name) THEN TxnQuantity(transactions[i]) ELSE 0])

\* per day: its positions, its revenue, its number of sales
DatePositions(date) == {i \in Positions : TxnDate(transactions[i]) = date}

DateRevenue(date) ==
    SeqSum([i \in Positions |->
               IF i \in DatePositions(date) THEN Amount(transactions[i]) ELSE 0])

RegionPositions(region) == {i \in Positions : TxnRegion(transactions[i]) = region}

CustomerPositions(customer) == {i \in Positions : TxnCustomer(transactions[i]) = customer}

----------------------------------------------------------------------------
(* Properties of region_wise_sales *)

\* the sum of the magnitudes of the amounts of the list
GrandMagnitude == SeqSum([i \in 1..Len(transactions) |-> Abs(Amount(transactions[i]))])

RECURSIVE FloatSum(_)
\* the sum of a sequence of floats, added from left to right in floating point
FloatSum(s) ==
    IF s = <<>> THEN 0 ELSE float_add(FloatSum(SubSeq(s, 1, Len(s) - 1)), s[Len(s)])

\* the total_sales of the regions of a result of region_wise_sales, in order
TotalSalesOf(result) == [i \in 1..Len(result) |-> result[i].total_sales]

\* C1 as claimed: the total_sales of the regions returned by
\* region_wise_sales add up to calculate_total_revenue of the same list,
\* be they added exactly or in floating point.
TotalSalesSumToRevenue ==
    called = "region_wise_sales" =>
        \/ SeqSum(TotalSalesOf(ret)) = calculate_total_revenue(transactions)
        \/ FloatSum(TotalSalesOf(ret)) = calculate_total_revenue(transactions)

\* C1 as amended: the total_sales of the regions add up to
\* calculate_total_revenue of the same list within floating-point tolerance.
\* The two are equal when no product or sum of the amounts needs rounding,
\* and otherwise differ by no more than the roundings behind them can make
\* up: 2 * g * (sum of |amount|), where g = m * u / (1 - m * u),
\* u = 2^-FloatBits and m is twice the number of records. This holds of the
\* exact sum of the total_sales and of their sum in floating point.
TotalSalesSumWithinTolerance ==
    called = "region_wise_sales" =>
        LET total == calculate_total_revenue(transactions)
            m == 2 * Len(transactions)
            Within(sum) ==
                /\ GrandMagnitude <= Pow2(FloatBits) => sum = total
                /\ (Pow2(FloatBits) - m) * Abs(sum - total) <= 2 * m * GrandMagnitude
        IN  Within(SeqSum(TotalSalesOf(ret))) /\ Within(FloatSum(TotalSalesOf(ret)))

\* C1 witness: region_wise_sales returned two regions, one of them holding
\* more than one sale, and rounding made the sum of their total_sales
\* differ from the total revenue.
TotalSalesSumWithinToleranceWitness ==
    /\ called = "region_wise_sales"
    /\ Len(ret) = 2
    /\ \E i \in 1..Len(ret) : ret[i].transaction_count >= 2
    /\ SeqSum(TotalSalesOf(ret)) # calculate_total_revenue(transactions)
    /\ FloatSum(TotalSalesOf(ret)) # calculate_total_revenue(transactions)

\* C1, exact case reached: several sales in several regions, nothing rounded.
ExactSumReached ==
    /\ called = "region_wise_sales"
    /\ Len(ret) = 2
    /\ \E i \in 1..Len(ret) : ret[i].transaction_count >= 2
    /\ GrandMagnitude <= Pow2(FloatBits)

\* C2: when the total revenue is positive the percentages add up to 100.00
\* within the rounding of each (at most 0.005 per region); when it is 0
\* every percentage is 0.
PercentagesSumTo100 ==
    called = "region_wise_sales" =>
        IF GrandTotal > 0
        THEN 2 * Abs(SeqSum([i \in 1..Len(ret) |-> ret[i].percentage]) - 10000) <= Len(ret)
        ELSE \A i \in 1..Len(ret) : ret[i].percentage = 0

\* C2 witness: three regions share a positive revenue in thirds and sixths,
\* so that the rounded percentages do not add up to exactly 100.00.
PercentagesSumTo100Witness ==
    /\ called = "region_wise_sales"
    /\ Len(ret) = 3
    /\ GrandTotal > 0
    /\ SeqSum([i \in 1..Len(ret) |-> ret[i].percentage]) # 10000

\* C2, second case reached: regions are returned although the revenue is 0.
ZeroRevenueReached ==
    called = "region_wise_sales" /\ Len(ret) >= 2 /\ GrandTotal = 0

----------------------------------------------------------------------------
(* Properties of the grouping *)

\* C3: every transaction is counted in exactly one bucket of each analyzer:
\* the transaction counts of the regions, the purchase counts of the
\* customers and the transaction counts of the days each add up to the
\* number of records, and the total quantities of the products (all of them
\* are returned when n is at least their number) add up to the quantity of
\* all records.
EveryTransactionCountedOnce ==
    /\ called = "region_wise_sales" =>
          SeqSum([i \in 1..Len(ret) |-> ret[i].transaction_count]) = Len(transactions)
    /\ called = "customer_analysis" =>
          SeqSum([i \in 1..Len(ret) |-> ret[i].purchase_count]) = Len(transactions)
    /\ called = "daily_sales_trend" =>
          SeqSum([i \in 1..Len(ret) |-> ret[i].transaction_count]) = Len(transactions)
    /\ called = "top_selling_products" /\ arg >= Cardinality(SoldProducts) =>
          SeqSum([i \in 1..Len(ret) |-> ret[i][2]])
              = SeqSum([i \in Positions |-> TxnQuantity(transactions[i])])

\* C3 witness: customer_analysis has put three records, two of them for the
\* same product, into two customers' buckets.
EveryTransactionCountedOnceWitness ==
    /\ called = "customer_analysis"
    /\ Len(transactions) = 3
    /\ Len(ret) = 2
    /\ \E i \in 1..Len(ret) : ret[i].purchase_count = 2 /\ Len(ret[i].products_bought) = 1

\* C3, product part reached: every product is returned, one of them sold twice.
AllProductsReturned ==
    /\ called = "top_selling_products"
    /\ arg >= Cardinality(SoldProducts)
    /\ Len(ret) = 2
    /\ Len(transactions) = 3

----------------------------------------------------------------------------
(* Properties of top_selling_products and low_performing_products *)

\* C4: for n >= 0, top_selling_products returns min(n, number of products)
\* entries, each a different product with its total quantity, in descending
\* order of quantity; no product left out has a greater quantity than one
\* returned; products with equal quantities are in first-seen order.
TopSellingCorrect ==
    called = "top_selling_products" /\ arg >= 0 =>
        /\ Len(ret) = Min(arg, Cardinality(SoldProducts))
        /\ \A i \in 1..Len(ret) :
              /\ ret[i][1] \in SoldProducts
              /\ ret[i][2] = TotalQuantity(ret[i][1])
        /\ \A i, j \in 1..Len(ret) : ret[i][1] = ret[j][1] => i = j
        /\ \A i \in 1..(Len(ret) - 1) : ret[i][2] >= ret[i + 1][2]
        /\ \A name \in SoldProducts \ {ret[i][1] : i \in 1..Len(ret)} :
              \A i \in 1..Len(ret) : TotalQuantity(name) <= ret[i][2]
        /\ \A i, j \in 1..Len(ret) :
              i < j /\ ret[i][2] = ret[j][2] =>
                  First(ProductPositions(ret[i][1])) < First(ProductPositions(ret[j][1]))

\* C4 witness: of three products the top two are returned, they have equal
\* quantities, and the one left out has less.
TopSellingCorrectWitness ==
    /\ called = "top_selling_products"
    /\ arg = 2
    /\ Cardinality(SoldProducts) = 3
    /\ Len(ret) = 2
    /\ ret[1][2] = ret[2][2]
    /\ \E name \in SoldProducts : TotalQuantity(name) < ret[2][2]

\* C5: low_performing_products returns exactly the products whose total
\* quantity is strictly below the threshold, each once with its total
\* quantity, in ascending order of quantity.
LowPerformingCorrect ==
    called = "low_performing_products" =>
        /\ {ret[i][1] : i \in 1..Len(ret)}
              = {name \in SoldProducts : TotalQuantity(name) < arg}
        /\ \A i, j \in 1..Len(ret) : ret[i][1] = ret[j][1] => i = j
        /\ \A i \in 1..Len(ret) : ret[i][2] = TotalQuantity(ret[i][1])
        /\ \A i \in 1..(Len(ret) - 1) : ret[i][2] <= ret[i + 1][2]

\* C5 witness: one product sold exactly the threshold and is left out,
\* another sold one less and is returned.
LowPerformingCorrectWitness ==
    /\ called = "low_performing_products"
    /\ \E name \in SoldProducts :
          /\ TotalQuantity(name) = arg
          /\ \A i \in 1..Len(ret) : ret[i][1] # name
    /\ \E i \in 1..Len(ret) : ret[i][2] = arg - 1

----------------------------------------------------------------------------
(* Properties of daily_sales_trend and find_peak_sales_day *)

\* C6: the keys of daily_sales_trend are the dates of the list, each once,
\* in ascending order of the date strings.
DailyKeysAscending ==
    called = "daily_sales_trend" =>
        /\ \A i, j \in 1..Len(ret) : i < j => LexLess(ret[i].key, ret[j].key)
        /\ {ret[i].key : i \in 1..Len(ret)} = SaleDates

\* C6 witness: three dates arrive in descending order and are returned.
DailyKeysAscendingWitness ==
    /\ called = "daily_sales_trend"
    /\ Len(transactions) = 3
    /\ Len(ret) = 3
    /\ LexLess(TxnDate(transactions[3]), TxnDate(transactions[2]))
    /\ LexLess(TxnDate(transactions[2]), TxnDate(transactions[1]))

\* C8: on a non-empty list find_peak_sales_day returns a date of the list
\* with its revenue and its number of sales; no date has a greater revenue,
\* and none with the same revenue was seen earlier in the list.
PeakDayCorrect ==
    called = "find_peak_sales_day" /\ transactions # <<>> =>
        /\ ret[1] \in SaleDates
        /\ ret[2] = DateRevenue(ret[1])
        /\ ret[3] = Cardinality(DatePositions(ret[1]))
        /\ \A date \in SaleDates :
              /\ DateRevenue(date) <= ret[2]
              /\ DateRevenue(date) = ret[2] =>
                    First(DatePositions(ret[1])) <= First(DatePositions(date))

\* C8 witness: two dates share the greatest revenue, and the one returned
\* is the later date string of the two and has two sales.
PeakDayCorrectWitness ==
    /\ called = "find_peak_sales_day"
    /\ ret[1] # None
    /\ ret[2] > 0
    /\ ret[3] = 2
    /\ \E date \in SaleDates :
          /\ date # ret[1]
          /\ DateRevenue(date) = ret[2]
          /\ LexLess(date, ret[1])

----------------------------------------------------------------------------
(* Properties of customer_analysis *)

\* C7: for every customer returned by customer_analysis, products_bought
\* has no duplicates and holds exactly the products of that customer's
\* records.
ProductsBoughtDistinct ==
    called = "customer_analysis" =>
        \A i \in 1..Len(ret) :
            LET products == ret[i].products_bought
            IN  /\ \A a, b \in 1..Len(products) : products[a] = products[b] => a = b
                /\ {products[a] : a \in 1..Len(products)}
                      = {TxnProduct(transactions[j]) : j \in CustomerPositions(ret[i].key)}

\* C7 witness: a customer bought three times, the same product twice, and
\* has two products in the list.
ProductsBoughtDistinctWitness ==
    /\ called = "customer_analysis"
    /\ \E i \in 1..Len(ret) :
          /\ ret[i].purchase_count = 3
          /\ Len(ret[i].products_bought) = 2

----------------------------------------------------------------------------
(* Properties of the order of the results *)

\* C9: region_wise_sales returns the regions in descending order of
\* total_sales and customer_analysis the customers in descending order of
\* total_spent; keys with equal totals are in first-seen order.
DescendingStable ==
    /\ called = "region_wise_sales" =>
          \A i, j \in 1..Len(ret) :
              i < j =>
                  \/ ret[i].total_sales > ret[j].total_sales
                  \/ /\ ret[i].total_sales = ret[j].total_sales
                     /\ First(RegionPositions(ret[i].key)) < First(RegionPositions(ret[j].key))
    /\ called = "customer_analysis" =>
          \A i, j \in 1..Len(ret) :
              i < j =>
                  \/ ret[i].total_spent > ret[j].total_spent
                  \/ /\ ret[i].total_spent = ret[j].total_spent
                     /\ First(CustomerPositions(ret[i].key))
                           < First(CustomerPositions(ret[j].key))

\* C9 witness: of three regions the one seen last sold most and comes
\* first; the other two sold the same.
DescendingStableWitness ==
    /\ called = "region_wise_sales"
    /\ Len(ret) = 3
    /\ ret[1].key = TxnRegion(transactions[3])
    /\ ret[1].total_sales > ret[2].total_sales
    /\ ret[2].total_sales = ret[3].total_sales

\* C9, customer part reached: two customers spent the same.
CustomerTieReached ==
    /\ called = "customer_analysis"
    /\ Len(ret) >= 2
    /\ ret[1].total_spent = ret[2].total_spent

----------------------------------------------------------------------------
(* Properties of the empty list *)

\* C10: on the empty list calculate_total_revenue returns 0,
\* region_wise_sales, customer_analysis and daily_sales_trend an empty dict,
\* top_selling_products and low_performing_products an empty list and
\* find_peak_sales_day (None, 0.0, 0).
EmptyListResults ==
    transactions = <<>> =>
        /\ called = "calculate_total_revenue" => ret = 0
        /\ called = "region_wise_sales" => ret = <<>>
        /\ called = "customer_analysis" => ret = <<>>
        /\ called = "daily_sales_trend" => ret = <<>>
        /\ called = "top_selling_products" => ret = <<>>
        /\ called = "low_performing_products" => ret = <<>>
        /\ called = "find_peak_sales_day" => ret = <<None, 0, 0>>

\* C10 witness: find_peak_sales_day has returned on the empty list.
EmptyListResultsWitness ==
    transactions = <<>> /\ called = "find_peak_sales_day"

----------------------------------------------------------------------------
(* Records that lack keys *)

\* the dict t without the keys in keys
Without(t, keys) == [k \in DOMAIN t \ keys |-> t[k]]

\* the keys the analyzers read
AnalyzedKeys == {"Region", "ProductName", "CustomerID", "Date", "Quantity", "UnitPrice"}

\* a whole record, the same without each of the keys the analyzers read, and
\* without all of them
AbsentRecords ==
    LET whole == Txn(Date1, "Laptop", 1, 2, "C001", "North")
    IN  {whole, Without(whole, AnalyzedKeys)} \cup {Without(whole, {k}) : k \in AnalyzedKeys}

InitAbsent == Start(AbsentRecords)

\* All seven analyzers over records that lack keys
SpecAbsent == InitAbsent /\ [][Next]_vars

\* the positions of the records that lack key k
Lacking(k) == {i \in Positions : k \notin DOMAIN transactions[i]}

\* the sum of Quantity * UnitPrice over the positions in S, a record that lacks
\* one of the two contributing 0
AmountOver(S) ==
    SeqSum([i \in Positions |->
        IF i \in S /\ {"Quantity", "UnitPrice"} \subseteq DOMAIN transactions[i]
        THEN transactions[i].Quantity * transactions[i].UnitPrice ELSE 0])

\* the sum of Quantity over the positions in S, a record that lacks it
\* contributing 0
QuantityOver(S) ==
    SeqSum([i \in Positions |->
        IF i \in S /\ "Quantity" \in DOMAIN transactions[i]
        THEN transactions[i].Quantity ELSE 0])

\* the places of the entries of a dict whose key is key
EntriesAt(d, key) == {i \in 1..Len(d) : d[i].key = key}

\* the places of the tuples of a product list whose name is name
TuplesAt(l, name) == {i \in 1..Len(l) : l[i][1] = name}

\* the elements of a list
Range(l) == {l[i] : i \in 1..Len(l)}

\* C11: a record that lacks Region, ProductName, CustomerID or Date is counted
\* in the bucket "Unknown" of the analyzer that groups by that key, a record
\* that lacks Quantity or UnitPrice adds 0 to the sums, and every analyzer
\* returns a value.
AbsentFieldsBucketed ==
    /\ called = "calculate_total_revenue" => ret = AmountOver(Positions)
    /\ called = "region_wise_sales" =>
          LET u == EntriesAt(ret, "Unknown")
              lack == Lacking("Region")
          IN  /\ Cardinality(u) = (IF lack = {} THEN 0 ELSE 1)
              /\ \A i \in u : /\ ret[i].transaction_count = Cardinality(lack)
                              /\ ret[i].total_sales = AmountOver(lack)
              /\ SeqSum([i \in 1..Len(ret) |-> ret[i].transaction_count]) = Len(transactions)
    /\ called = "top_selling_products" /\ arg >= Len(transactions) =>
          LET u == TuplesAt(ret, "Unknown")
              lack == Lacking("ProductName")
          IN  /\ Cardinality(u) = (IF lack = {} THEN 0 ELSE 1)
              /\ \A i \in u : ret[i] = <<"Unknown", QuantityOver(lack), AmountOver(lack)>>
              /\ SeqSum([i \in 1..Len(ret) |-> ret[i][2]]) = QuantityOver(Positions)
    /\ called = "low_performing_products" =>
          LET u == TuplesAt(ret, "Unknown")
              lack == Lacking("ProductName")
          IN  /\ Cardinality(u) = (IF lack # {} /\ QuantityOver(lack) < arg THEN 1 ELSE 0)
              /\ \A i \in u : ret[i] = <<"Unknown", QuantityOver(lack), AmountOver(lack)>>
    /\ called = "customer_analysis" =>
          LET u == EntriesAt(ret, "Unknown")
              lack == Lacking("CustomerID")
          IN  /\ Cardinality(u) = (IF lack = {} THEN 0 ELSE 1)
              /\ \A i \in u :
                    /\ ret[i].purchase_count = Cardinality(lack)
                    /\ ret[i].total_spent = AmountOver(lack)
                    /\ "Unknown" \in Range(ret[i].products_bought)
                          <=> lack \cap Lacking("ProductName") # {}
              /\ SeqSum([i \in 1..Len(ret) |-> ret[i].purchase_count]) = Len(transactions)
    /\ called = "daily_sales_trend" =>
          LET u == EntriesAt(ret, UnknownDate)
              lack == Lacking("Date")
          IN  /\ Cardinality(u) = (IF lack = {} THEN 0 ELSE 1)
              /\ \A i \in u :
                    /\ ret[i].transaction_count = Cardinality(lack)
                    /\ ret[i].revenue = AmountOver(lack)
                    /\ ret[i].unique_customers =
                          Cardinality({IF "CustomerID" \in DOMAIN transactions[j]
                                       THEN transactions[j].CustomerID ELSE "Unknown" :
                                          j \in lack})
              /\ SeqSum([i \in 1..Len(ret) |-> ret[i].transaction_count]) = Len(transactions)
    /\ called = "find_peak_sales_day" /\ ret[1] = UnknownDate =>
          /\ Lacking("Date") # {}
          /\ ret[2] = AmountOver(Lacking("Date"))
          /\ ret[3] = Cardinality(Lacking("Date"))

\* a list with a whole record, a record without Region and one without any of
\* the keys, grouped by region
AbsentFieldsBucketedWitness ==
    /\ called = "region_wise_sales"
    /\ Cardinality(Lacking("Region")) = 2
    /\ Lacking("Quantity") # Lacking("Region")
    /\ \E i \in EntriesAt(ret, "Unknown") : ret[i].total_sales > 0

\* the day "Unknown" is the peak day
UnknownPeakReached ==
    /\ called = "find_peak_sales_day"
    /\ ret[1] = UnknownDate
    /\ ret[2] > 0

----------------------------------------------------------------------------
(* Products sold under several ProductIDs *)

ProductIDs == {"P101", "P102"}

\* records of two names, each sold under two ProductIDs
MergeRecords ==
    {[Txn(Date1, n, q, 2, "C001", "North") EXCEPT !.ProductID = id] :
        n \in {"Laptop", "Mouse"}, q \in {1, 2}, id \in ProductIDs}

InitMerge == Start(MergeRecords)

\* The two product analyzers over records whose ProductID varies
SpecMerge == InitMerge /\ [][NextProduct]_vars

\* the tuple the product analyzers hold for a name: all records of that name,
\* whatever their ProductID
NameTuple(name) ==
    <<name, QuantityOver(ProductPositions(name)), AmountOver(ProductPositions(name))>>

\* C12: top_selling_products and low_performing_products hold one tuple per
\* ProductName, made of all records of that name whatever their ProductID, and
\* the tuple low_performing_products returns for a name is the tuple
\* top_selling_products holds for it.
SameNameMerged ==
    /\ called = "top_selling_products" /\ arg >= Len(transactions) =>
          /\ Len(ret) = Cardinality(SoldProducts)
          /\ \A name \in SoldProducts : \E i \in 1..Len(ret) : ret[i] = NameTuple(name)
          /\ \A i \in 1..Len(ret) :
                ret[i] \in Range(low_performing_products(transactions, ret[i][2] + 1))
    /\ called = "low_performing_products" =>
          /\ \A i, j \in 1..Len(ret) : ret[i][1] = ret[j][1] => i = j
          /\ \A i \in 1..Len(ret) :
                /\ ret[i] = NameTuple(ret[i][1])
                /\ ret[i] \in Range(top_selling_products(transactions, Len(transactions)))

\* the positions of the records of a name sold under ProductID id
SoldAs(name, id) == {i \in ProductPositions(name) : transactions[i].ProductID = id}

\* one name sold under two ProductIDs, next to another name, all returned
SameNameMergedWitness ==
    /\ called = "top_selling_products"
    /\ arg >= Len(transactions)
    /\ Len(ret) = 2
    /\ \E name \in SoldProducts : SoldAs(name, "P101") # {} /\ SoldAs(name, "P102") # {}

\* the same for low_performing_products
LowMergedReached ==
    /\ called = "low_performing_products"
    /\ \E i \in 1..Len(ret) : SoldAs(ret[i][1], "P101") # {} /\ SoldAs(ret[i][1], "P102") # {}

----------------------------------------------------------------------------
(* Calls that follow each other *)

\* the records of two customers
RepeatRecords ==
    {Txn(DateOf[k], n, 1, 1, CustomerOf[k], RegionOf[k]) : k \in 1..2, n \in {"Laptop", "Mouse"}}

\* a process whose sets enumerate the names one way, and one the other way
InitRepeat ==
    StartHashed(RepeatRecords, {HashOrderOfRun, <<"Unknown", "Webcam", "Mouse", "Laptop">>})

\* All seven analyzers, called in any order and any number of times
SpecRepeat == InitRepeat /\ [][Next]_vars

\* what analyzer f returns for second argument a when it is the only call the
\* process makes on the list
CalledAlone(f, a) ==
    CASE f = "calculate_total_revenue" -> {calculate_total_revenue(transactions)}
      [] f = "region_wise_sales" -> {region_wise_sales(transactions)}
      [] f = "top_selling_products" -> {top_selling_products(transactions, a)}
      [] f = "customer_analysis" ->
            {r \in customer_analysis(transactions) :
                \A i \in 1..Len(r) : InHashOrder(r[i].products_bought)}
      [] f = "daily_sales_trend" -> {daily_sales_trend(transactions)}
      [] f = "find_peak_sales_day" -> {find_peak_sales_day(transactions)}
      [] f = "low_performing_products" -> {low_performing_products(transactions, a)}

----------------------------------------------------------------------------
(* enrich_sales_data (src/utils/api_handler.py) *)

\* s.startswith(prefix)
startswith(s, prefix) == Len(s) >= Len(prefix) /\ SubSeq(s, 1, Len(prefix)) = prefix

\* s.replace(c, '') for a character c
replace(s, c) == SelectSeq(s, LAMBDA x : x # c)

\* '0' .. '9'
IsDigit(c) == c \in 48..57

RECURSIVE DigitsValue(_)
\* the number a string of decimal digits writes
DigitsValue(s) ==
    IF s = <<>> THEN 0 ELSE 10 * DigitsValue(SubSeq(s, 1, Len(s) - 1)) + (s[Len(s)] - 48)

\* int(s) for a string of letters, digits and signs: the number, or ValueError
int(s) ==
    LET signed == s # <<>> /\ s[1] \in {43, 45}
        digits == IF signed THEN Tail(s) ELSE s
    IN  IF digits # <<>> /\ \A i \in 1..Len(digits) : IsDigit(digits[i])
        THEN [ok |-> TRUE,
              value |-> IF signed /\ s[1] = 45 THEN 0 - DigitsValue(digits)
                        ELSE DigitsValue(digits)]
        ELSE [ok |-> FALSE, value |-> 0]

\* the keys enrich_sales_data adds
ApiKeys == {"API_Category", "API_Brand", "API_Rating", "API_Match"}

\* enriched_transaction after the four assignments
Enriched(transaction, category, brand, rating, match) ==
    [k \in DOMAIN transaction \cup ApiKeys |->
        CASE k = "API_Category" -> category
          [] k = "API_Brand" -> brand
          [] k = "API_Rating" -> rating
          [] k = "API_Match" -> match
          [] OTHER -> transaction[k]]

\* one iteration of the loop of enrich_sales_data
EnrichOne(transaction, product_mapping) ==
    LET unmatched == Enriched(transaction, None, None, None, FALSE)
        product_id == Get(transaction, "ProductID", <<>>)
    IN  IF ~startswith(product_id, <<80>>) THEN unmatched       \* numeric_id = None
        ELSE LET numeric_id == int(replace(product_id, 80))
             IN  IF ~numeric_id.ok THEN unmatched               \* except ValueError
                 ELSE IF numeric_id.value # 0 /\ numeric_id.value \in DOMAIN product_mapping
                      THEN LET product_info == product_mapping[numeric_id.value]
                           IN  Enriched(transaction, product_info.category,
                                        product_info.brand, product_info.rating, TRUE)
                      ELSE unmatched

\* the list enrich_sales_data returns
enrich_sales_data(txs, product_mapping) ==
    [i \in 1..Len(txs) |-> EnrichOne(txs[i], product_mapping)]

\* ProductIDs: 'P101', 'P5', 'P05', 'P0', 'P', 'X101', 'P1A', ''
EnrichProductIDs ==
    {<<80, 49, 48, 49>>, <<80, 53>>, <<80, 48, 53>>, <<80, 48>>, <<80>>,
     <<88, 49, 48, 49>>, <<80, 49, 65>>, <<>>}

\* a record for each ProductID, and one that has none
EnrichRecords ==
    LET whole == Txn(Date1, "Laptop", 1, 2, "C001", "North")
    IN  {[whole EXCEPT !.ProductID = id] : id \in EnrichProductIDs}
            \cup {Without(whole, {"ProductID"})}

\* what create_product_mapping keeps of three products; a product of the API
\* may come without a brand
Info101 == [title |-> "MacBook", category |-> "laptops", brand |-> "Apple", rating |-> 470]
Info5 == [title |-> "Mouse", category |-> "accessories", brand |-> None, rating |-> 444]
Info0 == [title |-> "Webcam", category |-> "cameras", brand |-> "Logi", rating |-> 390]

\* product mappings: the empty one (the API failed), and two of two products
ProductMappings ==
    {[id \in {} |-> Info0],
     [id \in {5, 101} |-> IF id = 5 THEN Info5 ELSE Info101],
     [id \in {0, 5} |-> IF id = 5 THEN Info5 ELSE Info0]}

\* enrich_sales_data(transactions, product_mapping): the list is returned and
\* data/enriched_sales_data.txt is written, unless it cannot be (IOError caught)
CallEnrichSalesData ==
    \E product_mapping \in ProductMappings :
        /\ called' = "enrich_sales_data"
        /\ arg' = product_mapping
        /\ ret' = enrich_sales_data(transactions, product_mapping)
        /\ env' = [env EXCEPT !.enriched_file =
                                 IF @ = "unwritable" THEN "unwritable" ELSE "written"]
        /\ UNCHANGED <<transactions, hash_order, pc>>

\* main is at step 6, with the list validate_and_filter returned
InitEnrich ==
    /\ transactions \in Lists(EnrichRecords)
    /\ called = "none"
    /\ arg = 0
    /\ ret = 0
    /\ hash_order = HashOrderOfRun
    /\ pc = "enrichment"
    /\ env \in {EnvOfRun, [EnvOfRun EXCEPT !.enriched_file = "unwritable"]}

NextEnrich == CallEnrichSalesData

\* Enrichment of one list with any of the product mappings
SpecEnrich == InitEnrich /\ [][NextEnrich]_vars

\* the numeric ID of a record: the number its ProductID writes after the 'P'
\* (P101 -> 101, P5 -> 5), when it has that form
NumericID(t) ==
    IF /\ "ProductID" \in DOMAIN t
       /\ Len(t.ProductID) >= 2
       /\ t.ProductID[1] = 80
       /\ \A i \in 2..Len(t.ProductID) : IsDigit(t.ProductID[i])
    THEN [ok |-> TRUE, value |-> DigitsValue(Tail(t.ProductID))]
    ELSE [ok |-> FALSE, value |-> 0]

\* C14: enrich_sales_data returns one record per input record, in input order,
\* with the fields of the input record; API_Match is True, with the category,
\* brand and rating of the mapping, exactly when the numeric ID of the
\* ProductID is a key of product_mapping, and otherwise it is False and the
\* three are None.
EnrichedExactlyWhenMapped ==
    called = "enrich_sales_data" =>
        /\ Len(ret) = Len(transactions)
        /\ \A i \in 1..Len(ret) :
              LET t == transactions[i]
                  id == NumericID(t)
                  mapped == id.ok /\ id.value \in DOMAIN arg
              IN  /\ DOMAIN ret[i] = DOMAIN t \cup ApiKeys
                  /\ \A k \in DOMAIN t : ret[i][k] = t[k]
                  /\ ret[i].API_Match = mapped
                  /\ mapped =>
                        /\ ret[i].API_Category = arg[id.value].category
                        /\ ret[i].API_Brand = arg[id.value].brand
                        /\ ret[i].API_Rating = arg[id.value].rating
                  /\ ~mapped =>
                        /\ ret[i].API_Category = None
                        /\ ret[i].API_Brand = None
                        /\ ret[i].API_Rating = None

----------------------------------------------------------------------------
(* The run of main.py (src/main.py)

   What decides which step runs next is what is outside the program: whether
   the files are there and can be written, whether the network answers. The
   records do not: no step raises on a list of parsed records. So the steps
   below leave the record list and the analyzers' results alone. *)

\* what can be outside a run
Envs ==
    [developer_file : {"present", "missing"},
     data_file : {"present", "missing", "unreadable"},
     api : {"up", "down"},
     enriched_file : {"writable", "unwritable"},
     report_file : {"writable", "unwritable"}]

\* python main.py has been started and nothing has been imported yet
InitMain ==
    /\ transactions = <<>>
    /\ called = "none"
    /\ arg = 0
    /\ ret = 0
    /\ hash_order = HashOrderOfRun
    /\ pc = "import"
    /\ env \in Envs

\* the imports of main.py. Importing utils.file_handler runs its module-level
\* statements, which read the sales file of the developer's machine with
\* read_sales_data; that raises FileNotFoundError when the file is not there,
\* and no try statement is around an import.
ImportModules ==
    /\ pc = "import"
    /\ pc' = IF env.developer_file = "missing" THEN "uncaught" ELSE "read"
    /\ UNCHANGED <<transactions, called, arg, ret, hash_order, env>>

\* step 1 of main, inside its try statement: FileNotFoundError goes to the
\* first handler, any other exception (the file cannot be opened) to the second
ReadSalesData ==
    /\ pc = "read"
    /\ pc' = CASE env.data_file = "missing" -> "file_not_found_reported"
               [] env.data_file = "unreadable" -> "error_reported"
               [] OTHER -> "parse"
    /\ UNCHANGED <<transactions, called, arg, ret, hash_order, env>>

\* step 2
ParseTransactions ==
    /\ pc = "parse"
    /\ pc' = "validate"
    /\ UNCHANGED <<transactions, called, arg, ret, hash_order, env>>

\* step 3
ValidateTransactions ==
    /\ pc = "validate"
    /\ pc' = "analysis"
    /\ UNCHANGED <<transactions, called, arg, ret, hash_order, env>>

\* step 4: the seven analyzers
AnalyzeSales ==
    /\ pc = "analysis"
    /\ pc' = "fetch"
    /\ UNCHANGED <<transactions, called, arg, ret, hash_order, env>>

\* step 5: fetch_all_products returns [] when the request fails
FetchAllProducts ==
    /\ pc = "fetch"
    /\ pc' = "enrichment"
    /\ UNCHANGED <<transactions, called, arg, ret, hash_order, env>>

\* step 6: enrich_sales_data catches the IOError of its file write
EnrichSalesData ==
    /\ pc = "enrichment"
    /\ pc' = "report"
    /\ env' = [env EXCEPT !.enriched_file =
                             IF @ = "unwritable" THEN "unwritable" ELSE "written"]
    /\ UNCHANGED <<transactions, called, arg, ret, hash_order>>

\* step 7: generate_sales_report opens its file without a try statement of its
\* own; the second handler of main catches what that raises
GenerateSalesReport ==
    /\ pc = "report"
    /\ IF env.report_file = "unwritable"
       THEN pc' = "error_reported" /\ env' = env
       ELSE pc' = "complete" /\ env' = [env EXCEPT !.report_file = "written"]
    /\ UNCHANGED <<transactions, called, arg, ret, hash_order>>

NextMain ==
    \/ ImportModules
    \/ ReadSalesData
    \/ ParseTransactions
    \/ ValidateTransactions
    \/ AnalyzeSales
    \/ FetchAllProducts
    \/ EnrichSalesData
    \/ GenerateSalesReport

\* One run of the program
SpecMain == InitMain /\ [][NextMain]_vars

\* C15: the program never ends with an uncaught exception, whatever fails and
\* wherever, the imports of main.py included; and when the input file is
\* missing, no analysis, enrichment or report step runs.
NoUncaughtException ==
    /\ pc # "uncaught"
    /\ env.data_file = "missing" =>
          /\ pc \notin {"fetch", "enrichment", "report", "complete"}
          /\ env.enriched_file # "written"
          /\ env.report_file # "written"

\* a run whose input file is missing has printed the message of the first handler
MissingFileReported ==
    /\ pc = "file_not_found_reported"
    /\ env.data_file = "missing"

----------------------------------------------------------------------------
(* validate_and_filter (src/utils/file_handler.py) *)

\* float('nan'), which parse_transactions makes of a UnitPrice written "nan":
\* held as a number no amount reaches, and compared with the two operators
\* below, which are false whenever one side is NaN
NaN == 0 - Pow2(2 * FloatBits)

\* a <= b for floats
float_le(a, b) == a # NaN /\ b # NaN /\ a <= b

\* a < b for floats
float_lt(a, b) == a # NaN /\ b # NaN /\ a < b

\* t['Quantity'] * t['UnitPrice']
TimesPrice(quantity, unit_price) ==
    IF unit_price = NaN THEN NaN ELSE float_mul(quantity, unit_price)

\* whitespace
IsSpace(c) == c \in {9, 10, 11, 12, 13, 32}

RECURSIVE strip(_)
\* s.strip()
strip(s) ==
    IF s = <<>> THEN s
    ELSE IF IsSpace(s[1]) THEN strip(Tail(s))
    ELSE IF IsSpace(s[Len(s)]) THEN strip(SubSeq(s, 1, Len(s) - 1))
    ELSE s

required_fields ==
    {"TransactionID", "Date", "ProductID", "ProductName",
     "Quantity", "UnitPrice", "CustomerID", "Region"}

\* is_valid at the end of one iteration of the validation loop
IsValid(transaction) ==
    /\ \A field \in required_fields : field \in DOMAIN transaction
    /\ ~float_le(transaction.Quantity, 0)
    /\ ~float_le(transaction.UnitPrice, 0)
    /\ startswith(transaction.TransactionID, <<84>>)
    /\ startswith(transaction.ProductID, <<80>>)
    /\ transaction.CustomerID # <<>> /\ startswith(transaction.CustomerID, <<67>>)
    /\ transaction.Region # <<>> /\ strip(transaction.Region) # <<>>

RECURSIVE ValidateLoop(_, _)
\* valid_transactions and invalid_count after the first i iterations
ValidateLoop(txs, i) ==
    IF i = 0 THEN [valid_transactions |-> <<>>, invalid_count |-> 0]
    ELSE LET prev == ValidateLoop(txs, i - 1)
         IN  IF IsValid(txs[i])
             THEN [prev EXCEPT !.valid_transactions = Append(@, txs[i])]
             ELSE [prev EXCEPT !.invalid_count = @ + 1]

\* "if region:" - a region was asked for
Truthy(region) == region # None /\ region # <<>>

\* the region filter: the list it leaves and filtered_by_region
RegionFilter(filtered_transactions, region) ==
    IF Truthy(region)
    THEN LET kept == SelectSeq(filtered_transactions, LAMBDA t : t.Region = region)
         IN  [filtered_transactions |-> kept,
              filtered_by_region |-> Len(filtered_transactions) - Len(kept)]
    ELSE [filtered_transactions |-> filtered_transactions, filtered_by_region |-> 0]

\* an amount bound that was not given (None), and one that was
NoAmount == [given |-> FALSE, value |-> 0]

GivenAmount(x) == [given |-> TRUE, value |-> x]

\* the body of the amount loop: t is appended to temp_filtered
AmountKept(t, min_amount, max_amount) ==
    LET amount == TimesPrice(t.Quantity, t.UnitPrice)
    IN  /\ ~(min_amount.given /\ float_lt(amount, min_amount.value))
        /\ ~(max_amount.given /\ float_lt(max_amount.value, amount))

\* A faulty variant of AmountFilter that takes the valid records, not the
\* records the region filter left, as the count before the filter.
AmountFilterFromValid(filtered_transactions, valid_transactions, min_amount, max_amount) ==
    IF min_amount.given \/ max_amount.given
    THEN LET temp_filtered == SelectSeq(filtered_transactions,
                                        LAMBDA t : AmountKept(t, min_amount, max_amount))
         IN  [filtered_transactions |-> temp_filtered,
              filtered_by_amount |-> Len(valid_transactions) - Len(temp_filtered)]
    ELSE [filtered_transactions |-> filtered_transactions, filtered_by_amount |-> 0]

\* the amount filter: the list it leaves and filtered_by_amount
AmountFilter(filtered_transactions, valid_transactions, min_amount, max_amount) ==
    IF min_amount.given \/ max_amount.given
    THEN LET temp_filtered == SelectSeq(filtered_transactions,
                                        LAMBDA t : AmountKept(t, min_amount, max_amount))
         IN  [filtered_transactions |-> temp_filtered,
              filtered_by_amount |-> Len(filtered_transactions) - Len(temp_filtered)]
    ELSE [filtered_transactions |-> filtered_transactions, filtered_by_amount |-> 0]

\* the tuple (filtered_transactions, invalid_count, filter_summary)
validate_and_filter(txs, region, min_amount, max_amount) ==
    LET total_input == Len(txs)
        validated == ValidateLoop(txs, Len(txs))
        by_region == RegionFilter(validated.valid_transactions, region)
        by_amount == AmountFilter(by_region.filtered_transactions,
                                  validated.valid_transactions, min_amount, max_amount)
    IN  <<by_amount.filtered_transactions,
          validated.invalid_count,
          [total_input |-> total_input,
           invalid |-> validated.invalid_count,
           filtered_by_region |-> by_region.filtered_by_region,
           filtered_by_amount |-> by_amount.filtered_by_amount,
           final_count |-> Len(by_amount.filtered_transactions)]>>

\* a record every rule accepts: T1, P1, C1, region N, amount 2
ValidRecord ==
    [TransactionID |-> <<84, 49>>, Date |-> Date1, ProductID |-> <<80, 49>>,
     ProductName |-> "Laptop", Quantity |-> 1, UnitPrice |-> 2,
     CustomerID |-> <<67, 49>>, Region |-> <<78>>]

\* three records every rule accepts (regions N and S, amounts 2 and 4), and one
\* record for each way of breaking a rule or of coming close to it: no Date, no
\* Region, Quantity 0, UnitPrice 0, UnitPrice nan, TransactionID 'X1',
\* ProductID 'X1', CustomerID '' and 'X1', Region '' and ' '
ValidateRecords ==
    {ValidRecord,
     [ValidRecord EXCEPT !.Quantity = 2],
     [ValidRecord EXCEPT !.Quantity = 2, !.Region = <<83>>],
     Without(ValidRecord, {"Date"}),
     Without(ValidRecord, {"Region"}),
     [ValidRecord EXCEPT !.Quantity = 0],
     [ValidRecord EXCEPT !.UnitPrice = 0],
     [ValidRecord EXCEPT !.UnitPrice = NaN],
     [ValidRecord EXCEPT !.TransactionID = <<88, 49>>],
     [ValidRecord EXCEPT !.ProductID = <<88, 49>>],
     [ValidRecord EXCEPT !.CustomerID = <<>>],
     [ValidRecord EXCEPT !.CustomerID = <<88, 49>>],
     [ValidRecord EXCEPT !.Region = <<>>],
     [ValidRecord EXCEPT !.Region = <<32>>]}

\* the filters a caller can ask for: no region, '', 'N' or 'S'; no bound or a
\* bound that one of the two amounts meets
RegionArguments == {None, <<>>, <<78>>, <<83>>}

MinAmounts == {NoAmount, GivenAmount(4)}

MaxAmounts == {NoAmount, GivenAmount(2)}

\* validate_and_filter(transactions, region, min_amount, max_amount)
CallValidateAndFilter ==
    \E region \in RegionArguments, min_amount \in MinAmounts, max_amount \in MaxAmounts :
        /\ called' = "validate_and_filter"
        /\ arg' = [region |-> region, min_amount |-> min_amount, max_amount |-> max_amount]
        /\ ret' = validate_and_filter(transactions, region, min_amount, max_amount)
        /\ UNCHANGED <<transactions, hash_order, pc, env>>

\* main is at step 3, with the list parse_transactions returned
InitValidate ==
    /\ transactions \in UNION {[1..k -> ValidateRecords] : k \in 0..MaxBatch}
    /\ called = "none"
    /\ arg = 0
    /\ ret = 0
    /\ hash_order = HashOrderOfRun
    /\ pc = "validate"
    /\ env = EnvOfRun

NextValidate == CallValidateAndFilter

\* Validation and filtering of one list, with any filters
SpecValidate == InitValidate /\ [][NextValidate]_vars

\* the validation rules: all eight fields, Quantity > 0, UnitPrice > 0,
\* TransactionID starts with 'T', ProductID with 'P', CustomerID with 'C',
\* Region non-empty
MeetsRules(t) ==
    /\ required_fields \subseteq DOMAIN t
    /\ t.Quantity > 0
    /\ t.UnitPrice # NaN /\ t.UnitPrice > 0
    /\ t.TransactionID # <<>> /\ t.TransactionID[1] = 84
    /\ t.ProductID # <<>> /\ t.ProductID[1] = 80
    /\ t.CustomerID # <<>> /\ t.CustomerID[1] = 67
    /\ t.Region # <<>>

\* the filters that were asked for: Region equal to the requested region,
\* min_amount <= Quantity * UnitPrice <= max_amount
MeetsFilters(t, filters) ==
    /\ Truthy(filters.region) => t.Region = filters.region
    /\ filters.min_amount.given => filters.min_amount.value <= t.Quantity * t.UnitPrice
    /\ filters.max_amount.given => t.Quantity * t.UnitPrice <= filters.max_amount.value

\* C16: the list validate_and_filter returns is made of the input records that
\* meet every validation rule and every filter that was asked for, all of
\* them, in input order.
ReturnsExactlyTheValid ==
    called = "validate_and_filter" =>
        ret[1] = SelectSeq(transactions, LAMBDA t : MeetsRules(t) /\ MeetsFilters(t, arg))

\* C20: filter_summary counts every input record once: total_input is invalid
\* + filtered_by_region + filtered_by_amount + final_count, final_count is the
\* length of the returned list, and the returned invalid_count is
\* filter_summary['invalid'].
SummaryAccountsForAll ==
    called = "validate_and_filter" =>
        LET filter_summary == ret[3]
        IN  /\ filter_summary.total_input = Len(transactions)
            /\ filter_summary.total_input =
                  filter_summary.invalid + filter_summary.filtered_by_region
                  + filter_summary.filtered_by_amount + filter_summary.final_count
            /\ filter_summary.final_count = Len(ret[1])
            /\ ret[2] = filter_summary.invalid

\* a call with both filters that drops one record as invalid and one by region
SummaryAccountsForAllWitness ==
    /\ called = "validate_and_filter"
    /\ ret[3].invalid = 1
    /\ ret[3].filtered_by_region = 1
    /\ Truthy(arg.region)
    /\ arg.min_amount.given \/ arg.max_amount.given

\* a call with both filters that drops one record by amount and returns one
AmountFilteredReached ==
    /\ called = "validate_and_filter"
    /\ ret[3].filtered_by_amount = 1
    /\ ret[3].final_count = 1
    /\ Truthy(arg.region)

----------------------------------------------------------------------------
(* The same records in another order *)

\* customer, day and amount of six sales: two customers, two days, and amounts
\* that floats round when they are added
OrderSales ==
    {<<1, 1, 1>>, <<1, 1, Pow2(FloatBits) - 2>>, <<1, 1, Pow2(FloatBits) - 1>>,
     <<1, 2, 1>>, <<1, 2, Pow2(FloatBits) - 1>>, <<2, 1, 1>>}

\* their records: one region per customer, one product per day
OrderRecords ==
    {Txn(DateOf[sale[2]], IF sale[2] = 1 THEN "Laptop" ELSE "Mouse", 1, sale[3],
         CustomerOf[sale[1]], RegionOf[sale[1]]) : sale \in OrderSales}

InitOrder == Start(OrderRecords)

NextOrder ==
    \/ CallTotalRevenue
    \/ CallRegionWiseSales
    \/ CallTopSellingProducts
    \/ CallCustomerAnalysis
    \/ CallDailySalesTrend

\* The analyzers that accumulate, over amounts that floats round
SpecOrder == InitOrder /\ [][NextOrder]_vars

\* the lists that hold the records of the list in another order
Permutations ==
    {[i \in Positions |-> transactions[q[i]]] :
        q \in {f \in [Positions -> Positions] : \A i, j \in Positions : f[i] = f[j] => i = j}}

\* the entry of a dict for a key it holds
EntryOf(d, key) == d[CHOOSE i \in 1..Len(d) : d[i].key = key]

\* the keys of a dict
KeysOf(d) == {d[i].key : i \in 1..Len(d)}

\* What the analyzer that returned last assigns to each key is what it assigns
\* to it for every other order of the records, two float sums being the same
\* when Same says so.
SameInEveryOrder(Same(_, _)) ==
    \A other \in Permutations :
        /\ called = "calculate_total_revenue" =>
              Same(ret, calculate_total_revenue(other))
        /\ called = "region_wise_sales" =>
              LET there == region_wise_sales(other)
              IN  /\ KeysOf(there) = KeysOf(ret)
                  /\ \A key \in KeysOf(ret) :
                        /\ Same(EntryOf(ret, key).total_sales, EntryOf(there, key).total_sales)
                        /\ EntryOf(ret, key).transaction_count
                              = EntryOf(there, key).transaction_count
        /\ called = "top_selling_products" /\ arg >= Len(transactions) =>
              LET there == top_selling_products(other, arg)
              IN  /\ Len(there) = Len(ret)
                  /\ \A i \in 1..Len(ret) : \E j \in 1..Len(there) :
                        /\ there[j][1] = ret[i][1]
                        /\ there[j][2] = ret[i][2]
                        /\ Same(ret[i][3], there[j][3])
        /\ called = "customer_analysis" =>
              LET there == CHOOSE r \in customer_analysis(other) : TRUE
              IN  /\ KeysOf(there) = KeysOf(ret)
                  /\ \A key \in KeysOf(ret) :
                        /\ Same(EntryOf(ret, key).total_spent, EntryOf(there, key).total_spent)
                        /\ EntryOf(ret, key).purchase_count = EntryOf(there, key).purchase_count
                        /\ Range(EntryOf(ret, key).products_bought)
                              = Range(EntryOf(there, key).products_bought)
        /\ called = "daily_sales_trend" =>
              LET there == daily_sales_trend(other)
              IN  /\ KeysOf(there) = KeysOf(ret)
                  /\ \A key \in KeysOf(ret) :
                        /\ Same(EntryOf(ret, key).revenue, EntryOf(there, key).revenue)
                        /\ EntryOf(ret, key).transaction_count
                              = EntryOf(there, key).transaction_count
                        /\ EntryOf(ret, key).unique_customers
                              = EntryOf(there, key).unique_customers

\* C17 as claimed: the totals, counts and distinct-value sets the analyzers
\* assign to each key, and the value of calculate_total_revenue, are the same
\* for every order of the records.
SameTotalsInEveryOrder == SameInEveryOrder(LAMBDA a, b : a = b)

\* two float sums of the amounts of the list are equal when no sum of them
\* needs rounding, and otherwise differ by no more than the roundings behind
\* them can make up: 2 * g * (sum of |amount|), where g = m * u / (1 - m * u),
\* u = 2^-FloatBits and m is twice the number of records
WithinRounding(a, b) ==
    LET m == 2 * Len(transactions)
    IN  /\ GrandMagnitude <= Pow2(FloatBits) => a = b
        /\ (Pow2(FloatBits) - m) * Abs(a - b) <= 2 * m * GrandMagnitude

\* C17 as amended: the counts, quantities and distinct-value sets the analyzers
\* assign to each key are the same for every order of the records, and the
\* float sums (total_sales, total_spent, revenue, total_revenue, the value of
\* calculate_total_revenue) are the same within floating-point tolerance.
SameTotalsWithinRounding == SameInEveryOrder(WithinRounding)

\* a region of three sales whose total is not the same in every order
SameTotalsWithinRoundingWitness ==
    /\ called = "region_wise_sales"
    /\ \E key \in KeysOf(ret) :
          /\ EntryOf(ret, key).transaction_count = 3
          /\ \E other \in Permutations :
                EntryOf(region_wise_sales(other), key).total_sales
                    # EntryOf(ret, key).total_sales

\* sales of two customers on two days whose sums need no rounding
ExactOrderReached ==
    /\ called = "daily_sales_trend"
    /\ Len(transactions) = 3
    /\ Len(ret) = 2
    /\ \E key \in KeysOf(ret) : EntryOf(ret, key).unique_customers = 2
    /\ GrandMagnitude <= Pow2(FloatBits)

----------------------------------------------------------------------------
(* Properties of top_selling_products for any n *)

\* C18: for every integer n, negative ones and 0 included,
\* top_selling_products returns at most max(n, 0) entries, and all the
\* products when there are fewer than n of them.
AtMostNEntries ==
    called = "top_selling_products" =>
        /\ Len(ret) <= Max(arg, 0)
        /\ Cardinality(SoldProducts) < arg => Len(ret) = Cardinality(SoldProducts)

----------------------------------------------------------------------------
(* find_peak_sales_day against daily_sales_trend *)

\* C19: for a list that is not empty, the date, revenue and transaction count
\* find_peak_sales_day returns are the revenue and transaction count
\* daily_sales_trend holds for that date, and daily_sales_trend holds no date
\* of a greater revenue.
PeakAgreesWithTrend ==
    /\ called = "find_peak_sales_day" /\ transactions # <<>> =>
          LET trend == daily_sales_trend(transactions)
          IN  /\ ret[1] \in KeysOf(trend)
              /\ EntryOf(trend, ret[1]).revenue = ret[2]
              /\ EntryOf(trend, ret[1]).transaction_count = ret[3]
              /\ \A i \in 1..Len(trend) : trend[i].revenue <= ret[2]
    /\ called = "daily_sales_trend" /\ transactions # <<>> =>
          LET peak == find_peak_sales_day(transactions)
          IN  /\ peak[1] \in KeysOf(ret)
              /\ EntryOf(ret, peak[1]).revenue = peak[2]
              /\ EntryOf(ret, peak[1]).transaction_count = peak[3]
              /\ \A i \in 1..Len(ret) : ret[i].revenue <= peak[2]

\* the peak day has two sales and is the later of two days
PeakAgreesWithTrendWitness ==
    /\ called = "find_peak_sales_day"
    /\ Cardinality(SaleDates) = 2
    /\ ret[3] = 2
    /\ \E date \in SaleDates : LexLess(date, ret[1])

====
